---- MODULE Spec2Model ----
(***************************************************************************)
(* The books router of the Book-Management web application:                *)
(*   GET    /get_by_rating/:rating                                         *)
(*   DELETE /books/delete_by_range/:min/:max                               *)
(* Each request is an express handler that validates its parameters,       *)
(* issues one parameterised statement to the connection pool and answers   *)
(* from the promise's then / catch callback.                               *)
(*                                                                         *)
(* Strings are sequences of one-character strings, so that parseInt and    *)
(* the database's integer input conversion are computed character by       *)
(* character.  rating_avg is a decimal with one fractional digit, stored   *)
(* in tenths (27 is 2.7).                                                  *)
(***************************************************************************)
EXTENDS Integers, Sequences, FiniteSets, TLC

\* ------------------------------------------------------------------ bounds

\* Number of rows of the catalogue the books table is drawn from.
MaxBooks == 4

\* Number of request slots (requests the server holds at the same time).
MaxInFlight == 2

Slots == 1..MaxInFlight

\* ------------------------------------------------------- JavaScript values

\* request.query.<name> when the query string has no such key.
Undefined == [type |-> "undefined", chars |-> <<>>]

\* A string value.
Str(cs) == [type |-> "string", chars |-> cs]

\* A number, or NaN.
Num(n) == [nan |-> FALSE, num |-> n]

NaN == [nan |-> TRUE, num |-> 0]

\* !v of the handler: undefined and the empty string are falsy.
Falsy(v) == v.type = "undefined" \/ v.chars = <<>>

HexLower == <<"0", "1", "2", "3", "4", "5", "6", "7", "8", "9",
              "a", "b", "c", "d", "e", "f">>

HexUpper == <<"0", "1", "2", "3", "4", "5", "6", "7", "8", "9",
              "A", "B", "C", "D", "E", "F">>

IsDigit(c, radix) == \E d \in 1..radix : HexLower[d] = c \/ HexUpper[d] = c

DigitValue(c) == (CHOOSE d \in 1..16 : HexLower[d] = c \/ HexUpper[d] = c) - 1

IsWhite(c) == c = " "

RECURSIVE SkipWhite(_)
SkipWhite(cs) ==
    IF cs # <<>> /\ IsWhite(Head(cs)) THEN SkipWhite(Tail(cs)) ELSE cs

\* The longest prefix of digits of the radix, as <<number of digits, value>>.
RECURSIVE DigitRun(_, _, _, _)
DigitRun(cs, radix, count, acc) ==
    IF cs # <<>> /\ IsDigit(Head(cs), radix)
    THEN DigitRun(Tail(cs), radix, count + 1, acc * radix + DigitValue(Head(cs)))
    ELSE <<count, acc>>

\* parseInt(string) without a radix: leading white space is skipped, a sign
\* is read, a 0x / 0X prefix selects radix 16, the longest run of digits is
\* converted and whatever follows it is ignored; no digit at all gives NaN.
\* parseInt(undefined) converts "undefined", which has no digit.
ParseInt(v) ==
    IF v.type = "undefined" THEN NaN
    ELSE
      LET s0     == SkipWhite(v.chars)
          signed == s0 # <<>> /\ Head(s0) \in {"-", "+"}
          sign   == IF s0 # <<>> /\ Head(s0) = "-" THEN -1 ELSE 1
          s1     == IF signed THEN Tail(s0) ELSE s0
          hex    == Len(s1) >= 2 /\ s1[1] = "0" /\ s1[2] \in {"x", "X"}
          s2     == IF hex THEN Tail(Tail(s1)) ELSE s1
          run    == DigitRun(s2, IF hex THEN 16 ELSE 10, 0, 0)
      IN  IF run[1] = 0 THEN NaN ELSE Num(sign * run[2])

\* ------------------------------------------------------------ the database

\* A stored book record (the columns the two statements and the formatter's
\* checked fields read).
Row(i) ==
    [isbn13           |-> i,
     publication_year |-> 1 + (i % 3),
     rating_avg       |-> 10 + ((i * 17) % 40),
     image_url        |-> i + 100]

Catalogue == {Row(i) : i \in 1..MaxBooks}

\* FLOOR(rating_avg) of the SELECT, on a value stored in tenths.
Floor(x) == x \div 10

\* A value bound to a statement: a number (sent as its decimal text) or the
\* raw query-string value.
BoundNumber(n) == [type |-> "number", chars |-> <<>>, num |-> n]

BoundRaw(v) == [type |-> v.type, chars |-> v.chars, num |-> 0]

RECURSIVE AllWhite(_)
AllWhite(cs) == cs = <<>> \/ (IsWhite(Head(cs)) /\ AllWhite(Tail(cs)))

RECURSIVE DropDigits(_)
DropDigits(cs) ==
    IF cs # <<>> /\ IsDigit(Head(cs), 10) THEN DropDigits(Tail(cs)) ELSE cs

\* The conversion the database applies to a parameter compared with an
\* integer column: a bound number is itself; a bound text must be white
\* space, an optional sign, at least one decimal digit and white space, and
\* nothing else, or the statement fails (invalid input syntax for type
\* integer).
DbInteger(b) ==
    IF b.type = "number" THEN [ok |-> TRUE, num |-> b.num]
    ELSE IF b.type = "undefined" THEN [ok |-> FALSE, num |-> 0]
    ELSE
      LET s0     == SkipWhite(b.chars)
          signed == s0 # <<>> /\ Head(s0) \in {"-", "+"}
          sign   == IF s0 # <<>> /\ Head(s0) = "-" THEN -1 ELSE 1
          s1     == IF signed THEN Tail(s0) ELSE s0
          run    == DigitRun(s1, 10, 0, 0)
      IN  IF run[1] > 0 /\ AllWhite(DropDigits(s1))
          THEN [ok |-> TRUE, num |-> sign * run[2]]
          ELSE [ok |-> FALSE, num |-> 0]

\* The SELECT with the rating taken as a minimum.
SelectAtLeastRating(table, p1) == {b \in table : Floor(b.rating_avg) >= p1}

\* SELECT * FROM books WHERE FLOOR(rating_avg) = $1
SelectByRating(table, p1) == {b \in table : Floor(b.rating_avg) = p1}

\* The DELETE with its upper bound excluded.
RowsInRangeExclusive(table, p1, p2) ==
    {b \in table : b.publication_year >= p1 /\ b.publication_year < p2}

\* The rows matched by
\* DELETE FROM books WHERE publication_year >= $1 AND publication_year <= $2
RowsInRange(table, p1, p2) ==
    {b \in table : b.publication_year >= p1 /\ b.publication_year <= p2}

\* ------------------------------------------------------------------- state

VARIABLES
    books,      \* the books table
    state,      \* per slot: the request's position in its handler
    request,    \* per slot: the express request (route, params, query)
    response,   \* per slot: the express response (statusCode, body, sent)
    pending,    \* per slot: the statement handed to pool.query
    result,     \* per slot: what the pool's promise resolved with
    history     \* per slot: the table when the request arrived, and just
                \* before and after its statement ran

vars == <<books, state, request, response, pending, result, history>>

NoRequest == [route |-> "none", params |-> [rating |-> Undefined],
              query |-> [rating |-> Undefined, min |-> Undefined, max |-> Undefined]]

NoBody == [keys |-> {}, message |-> "", books |-> {}, deletedCount |-> 0]

\* A fresh express response: statusCode defaults to 200, nothing sent.
NoResponse == [statusCode |-> 200, sent |-> 0, body |-> NoBody]

NoPending == [issued |-> 0, text |-> "none", values |-> <<>>]

NoResult == [rows |-> {}, rowCount |-> 0]

NoHistory == [atStart |-> {}, before |-> {}, after |-> {}, executed |-> 0]

Init ==
    /\ books \in SUBSET Catalogue
    /\ state = [i \in Slots |-> "Idle"]
    /\ request = [i \in Slots |-> NoRequest]
    /\ response = [i \in Slots |-> NoResponse]
    /\ pending = [i \in Slots |-> NoPending]
    /\ result = [i \in Slots |-> NoResult]
    /\ history = [i \in Slots |-> NoHistory]

\* ------------------------------------------------------------ the handlers

\* response.status(code).send(body)
StatusSend(resp, code, body) ==
    [statusCode |-> code, sent |-> resp.sent + 1, body |-> body]

\* response.send(body): the status code stays what it was.
Send(resp, body) ==
    [statusCode |-> resp.statusCode, sent |-> resp.sent + 1, body |-> body]

MessageBody(m) ==
    [keys |-> {"message"}, message |-> m, books |-> {}, deletedCount |-> 0]

BooksBody(bs) ==
    [keys |-> {"books"}, message |-> "", books |-> bs, deletedCount |-> 0]

DeletedBody(m, n) ==
    [keys |-> {"message", "deletedCount"}, message |-> m, books |-> {},
     deletedCount |-> n]

\* formatBooks: each row reshaped into the public view.
formatBooks(rows) ==
    {[isbn13      |-> b.isbn13,
      publication |-> b.publication_year,
      ratings     |-> [average |-> b.rating_avg],
      icons       |-> [large |-> b.image_url]] : b \in rows}

\* The rating check with its lower bound off by one.
RatingInvalidLow(rating) == rating.nan \/ rating.num < 0 \/ rating.num > 5

\* The second check of get_by_rating.
RatingInvalid(rating) == rating.nan \/ rating.num < 1 \/ rating.num > 5

\* The range check that also refuses min = max.
RangeInvalidStrict(min, max) == min.nan \/ max.nan \/ min.num >= max.num

\* The check of delete_by_range.
RangeInvalid(min, max) == min.nan \/ max.nan \/ min.num > max.num

\* The values get_by_rating binds: the parsed rating.
RatingValues(req, rating) == <<BoundNumber(rating.num)>>

\* The values delete_by_range binds: the two query-string values as received.
RangeValues(req) == <<BoundRaw(req.query.min), BoundRaw(req.query.max)>>

\* pool.query(theQuery, values)
Issue(p, text, values) ==
    [issued |-> p.issued + 1, text |-> text, values |-> values]

\* express routes a GET /get_by_rating/:rating request to its handler.
ReceiveGetByRating(i, p, q) ==
    /\ state[i] = "Idle"
    /\ state' = [state EXCEPT ![i] = "Received"]
    /\ request' = [request EXCEPT ![i] =
                     [route  |-> "get_by_rating",
                      params |-> [rating |-> p],
                      query  |-> [rating |-> q, min |-> Undefined, max |-> Undefined]]]
    /\ history' = [history EXCEPT ![i].atStart = books]
    /\ UNCHANGED <<books, response, pending, result>>

\* express routes a DELETE /books/delete_by_range/:min/:max request to its
\* handler (the handler never reads request.params, which is left out).
ReceiveDeleteByRange(i, mn, mx) ==
    /\ state[i] = "Idle"
    /\ state' = [state EXCEPT ![i] = "Received"]
    /\ request' = [request EXCEPT ![i] =
                     [route  |-> "delete_by_range",
                      params |-> [rating |-> Undefined],
                      query  |-> [rating |-> Undefined, min |-> mn, max |-> mx]]]
    /\ history' = [history EXCEPT ![i].atStart = books]
    /\ UNCHANGED <<books, response, pending, result>>

\* The synchronous part of the get_by_rating handler: the two checks, then
\* pool.query.
GetByRating(i) ==
    /\ state[i] = "Received"
    /\ request[i].route = "get_by_rating"
    /\ LET q      == request[i].query.rating
           rating == ParseInt(q)
       IN  IF Falsy(q)
           THEN /\ response' = [response EXCEPT ![i] =
                      StatusSend(@, 400, MessageBody("Rating parameter is required."))]
                /\ state' = [state EXCEPT ![i] = "Rejected"]
                /\ UNCHANGED pending
           ELSE IF RatingInvalid(rating)
           THEN /\ response' = [response EXCEPT ![i] =
                      StatusSend(@, 400, MessageBody(
                        "Invalid rating parameter. Please specify a rating between 1 and 5."))]
                /\ state' = [state EXCEPT ![i] = "Rejected"]
                /\ UNCHANGED pending
           ELSE /\ pending' = [pending EXCEPT ![i] =
                      Issue(@, "SELECT", RatingValues(request[i], rating))]
                /\ state' = [state EXCEPT ![i] = "Validated"]
                /\ UNCHANGED response
    /\ UNCHANGED <<books, request, result, history>>

\* The delete_by_range handler with pool.query called before the check.
DeleteByRangeQueryFirst(i) ==
    /\ state[i] = "Received"
    /\ request[i].route = "delete_by_range"
    /\ LET values == RangeValues(request[i])
           min    == ParseInt(request[i].query.min)
           max    == ParseInt(request[i].query.max)
       IN  /\ pending' = [pending EXCEPT ![i] = Issue(@, "DELETE", values)]
           /\ IF RangeInvalid(min, max)
              THEN /\ response' = [response EXCEPT ![i] =
                         StatusSend(@, 400, MessageBody(
                           "Invalid date parameters. Please specify a min and max publication year. min must be less than max."))]
                   /\ state' = [state EXCEPT ![i] = "Rejected"]
              ELSE /\ state' = [state EXCEPT ![i] = "Validated"]
                   /\ UNCHANGED response
    /\ UNCHANGED <<books, request, result, history>>

\* The synchronous part of the delete_by_range handler.
DeleteByRange(i) ==
    /\ state[i] = "Received"
    /\ request[i].route = "delete_by_range"
    /\ LET values == RangeValues(request[i])
           min    == ParseInt(request[i].query.min)
           max    == ParseInt(request[i].query.max)
       IN  IF RangeInvalid(min, max)
           THEN /\ response' = [response EXCEPT ![i] =
                      StatusSend(@, 400, MessageBody(
                        "Invalid date parameters. Please specify a min and max publication year. min must be less than max."))]
                /\ state' = [state EXCEPT ![i] = "Rejected"]
                /\ UNCHANGED pending
           ELSE /\ pending' = [pending EXCEPT ![i] = Issue(@, "DELETE", values)]
                /\ state' = [state EXCEPT ![i] = "Validated"]
                /\ UNCHANGED response
    /\ UNCHANGED <<books, request, result, history>>

\* The pool runs the SELECT and resolves the promise with its rows.
PoolSelect(i) ==
    /\ state[i] = "Validated"
    /\ pending[i].text = "SELECT"
    /\ DbInteger(pending[i].values[1]).ok
    /\ LET rows == SelectByRating(books, DbInteger(pending[i].values[1]).num)
       IN  /\ result' = [result EXCEPT ![i] =
                           [rows |-> rows, rowCount |-> Cardinality(rows)]]
           /\ history' = [history EXCEPT ![i].before = books, ![i].after = books,
                                         ![i].executed = @ + 1]
    /\ state' = [state EXCEPT ![i] = "Queried"]
    /\ UNCHANGED <<books, request, response, pending>>

\* The DELETE that counts the rows in range and loses their removal.
PoolDeleteCountOnly(i) ==
    /\ state[i] = "Validated"
    /\ pending[i].text = "DELETE"
    /\ DbInteger(pending[i].values[1]).ok
    /\ DbInteger(pending[i].values[2]).ok
    /\ LET gone == RowsInRange(books, DbInteger(pending[i].values[1]).num,
                                      DbInteger(pending[i].values[2]).num)
       IN  /\ result' = [result EXCEPT ![i] =
                           [rows |-> {}, rowCount |-> Cardinality(gone)]]
           /\ history' = [history EXCEPT ![i].before = books,
                                         ![i].after = books,
                                         ![i].executed = @ + 1]
    /\ state' = [state EXCEPT ![i] = "Queried"]
    /\ UNCHANGED <<books, request, response, pending>>

\* The pool runs the DELETE, as one statement, and resolves the promise with
\* the number of rows it removed.
PoolDelete(i) ==
    /\ state[i] = "Validated"
    /\ pending[i].text = "DELETE"
    /\ DbInteger(pending[i].values[1]).ok
    /\ DbInteger(pending[i].values[2]).ok
    /\ LET gone == RowsInRange(books, DbInteger(pending[i].values[1]).num,
                                      DbInteger(pending[i].values[2]).num)
       IN  /\ books' = books \ gone
           /\ result' = [result EXCEPT ![i] =
                           [rows |-> {}, rowCount |-> Cardinality(gone)]]
           /\ history' = [history EXCEPT ![i].before = books,
                                         ![i].after = books \ gone,
                                         ![i].executed = @ + 1]
    /\ state' = [state EXCEPT ![i] = "Queried"]
    /\ UNCHANGED <<request, response, pending>>

\* The then callback without its empty-result branch.
GetThenNeverNotFound(i) ==
    /\ state[i] = "Queried"
    /\ request[i].route = "get_by_rating"
    /\ response' = [response EXCEPT ![i] =
          Send(@, BooksBody(formatBooks(result[i].rows)))]
    /\ state' = [state EXCEPT ![i] = "Responded"]
    /\ UNCHANGED <<books, request, pending, result, history>>

\* The then callback of get_by_rating.
GetThen(i) ==
    /\ state[i] = "Queried"
    /\ request[i].route = "get_by_rating"
    /\ response' = [response EXCEPT ![i] =
          IF Cardinality(result[i].rows) = 0
          THEN StatusSend(@, 404, MessageBody("No books found with that rating."))
          ELSE Send(@, BooksBody(formatBooks(result[i].rows)))]
    /\ state' = [state EXCEPT ![i] = "Responded"]
    /\ UNCHANGED <<books, request, pending, result, history>>

\* The promise of get_by_rating is rejected (the statement or the connection
\* failed) and its catch callback runs.
GetCatch(i) ==
    /\ state[i] = "Validated"
    /\ request[i].route = "get_by_rating"
    /\ response' = [response EXCEPT ![i] =
          StatusSend(@, 500, MessageBody("Server error - contact support"))]
    /\ state' = [state EXCEPT ![i] = "Failed"]
    /\ UNCHANGED <<books, request, pending, result, history>>

\* The then callback of delete_by_range.
DeleteThen(i) ==
    /\ state[i] = "Queried"
    /\ request[i].route = "delete_by_range"
    /\ response' = [response EXCEPT ![i] =
          Send(@, DeletedBody("Books successfully deleted", result[i].rowCount))]
    /\ state' = [state EXCEPT ![i] = "Responded"]
    /\ UNCHANGED <<books, request, pending, result, history>>

\* The catch callback that logs the error and sends nothing.
DeleteCatchSilent(i) ==
    /\ state[i] = "Validated"
    /\ request[i].route = "delete_by_range"
    /\ state' = [state EXCEPT ![i] = "Failed"]
    /\ UNCHANGED <<books, request, response, pending, result, history>>

\* The promise of delete_by_range is rejected and its catch callback runs.
DeleteCatch(i) ==
    /\ state[i] = "Validated"
    /\ request[i].route = "delete_by_range"
    /\ response' = [response EXCEPT ![i] =
          StatusSend(@, 500, MessageBody("Server error - contact support"))]
    /\ state' = [state EXCEPT ![i] = "Failed"]
    /\ UNCHANGED <<books, request, pending, result, history>>

Terminal(i) == state[i] \in {"Rejected", "Responded", "Failed"}

\* The answered request and its response are dropped; the slot is free again.
Release(i) ==
    /\ Terminal(i)
    /\ state' = [state EXCEPT ![i] = "Idle"]
    /\ request' = [request EXCEPT ![i] = NoRequest]
    /\ response' = [response EXCEPT ![i] = NoResponse]
    /\ pending' = [pending EXCEPT ![i] = NoPending]
    /\ result' = [result EXCEPT ![i] = NoResult]
    /\ history' = [history EXCEPT ![i] = NoHistory]
    /\ UNCHANGED books

\* ------------------------------------------------------------------ inputs

\* Path segments for :rating (a path segment is never empty).
PathTexts == {Str(<<"3">>), Str(<<"9">>), Str(<<"a", "b", "c">>)}

\* Values of ?rating=.
RatingTexts ==
    {Undefined, Str(<<>>),
     Str(<<"0">>), Str(<<"1">>), Str(<<"2">>), Str(<<"3">>), Str(<<"4">>),
     Str(<<"5">>), Str(<<"6">>), Str(<<"1", "0">>), Str(<<"-", "1">>),
     Str(<<"a", "b", "c">>), Str(<<"3", "a", "b", "c">>), Str(<<" ", "3">>),
     Str(<<"3", ".", "7">>), Str(<<"0", "x", "3">>), Str(<<"0", "x">>)}

\* Values of ?min= and ?max=.
YearTexts ==
    {Undefined, Str(<<>>),
     Str(<<"0">>), Str(<<"1">>), Str(<<"2">>), Str(<<"3">>), Str(<<"4">>),
     Str(<<"-", "1">>), Str(<<"a", "b", "c">>), Str(<<"2", "x">>),
     Str(<<" ", "2">>), Str(<<"2", ".", "5">>), Str(<<"+", "3">>)}

\* Values of ?min= and of ?max= when requests overlap.
OverlapMinTexts == {Str(<<"1">>), Str(<<"2">>)}

OverlapMaxTexts == {Str(<<"1">>), Str(<<"2">>), Str(<<"3">>)}

\* ---------------------------------------------------------- specifications

\* The slot a new request takes: the lowest free one.
FirstIdle(i) == state[i] = "Idle" /\ \A j \in Slots : j < i => state[j] # "Idle"

Quiet == \A j \in Slots : state[j] = "Idle"

\* One client sending requests one after the other, any parameter values.
Next ==
    \/ \E i \in Slots, p \in PathTexts, q \in RatingTexts :
          Quiet /\ FirstIdle(i) /\ ReceiveGetByRating(i, p, q)
    \/ \E i \in Slots, mn \in YearTexts, mx \in YearTexts :
          Quiet /\ FirstIdle(i) /\ ReceiveDeleteByRange(i, mn, mx)
    \/ \E i \in Slots : GetByRating(i)
    \/ \E i \in Slots : DeleteByRange(i)
    \/ \E i \in Slots : PoolSelect(i)
    \/ \E i \in Slots : PoolDelete(i)
    \/ \E i \in Slots : GetThen(i)
    \/ \E i \in Slots : GetCatch(i)
    \/ \E i \in Slots : DeleteThen(i)
    \/ \E i \in Slots : DeleteCatch(i)
    \/ \E i \in Slots : Release(i)

Spec == Init /\ [][Next]_vars

\* The pool settles every statement and the event loop runs every handler
\* and callback that is ready.
Fairness ==
    \A i \in Slots :
        /\ WF_vars(GetByRating(i))
        /\ WF_vars(DeleteByRange(i))
        /\ WF_vars(PoolSelect(i) \/ GetCatch(i))
        /\ WF_vars(PoolDelete(i) \/ DeleteCatch(i))
        /\ WF_vars(GetThen(i))
        /\ WF_vars(DeleteThen(i))

FairSpec == Init /\ [][Next]_vars /\ Fairness

\* delete_by_range requests that overlap: each slot is used once, a request
\* may arrive while others are under way, and the statements run in any
\* order.
NextOverlap ==
    \/ \E i \in Slots, mn \in OverlapMinTexts, mx \in OverlapMaxTexts :
          FirstIdle(i) /\ ReceiveDeleteByRange(i, mn, mx)
    \/ \E i \in Slots : DeleteByRange(i)
    \/ \E i \in Slots : PoolDelete(i)
    \/ \E i \in Slots : DeleteThen(i)
    \/ \E i \in Slots : DeleteCatch(i)

SpecOverlap == Init /\ [][NextOverlap]_vars

\* ================================================================== claims

IsGet(i) == request[i].route = "get_by_rating"

IsDelete(i) == request[i].route = "delete_by_range"

\* The handler of request i has run.
Handled(i) == state[i] \notin {"Idle", "Received"}

Answered(i, code) == response[i].sent > 0 /\ response[i].statusCode = code

\* The rating, and the bounds, a request asks for.
AskedRating(i) == ParseInt(request[i].query.rating)

AskedMin(i) == ParseInt(request[i].query.min)

AskedMax(i) == ParseInt(request[i].query.max)

\* The stored rows whose average lies in [r, r + 1), in tenths.
RowsRated(table, r) ==
    {b \in table : b.rating_avg >= 10 * r /\ b.rating_avg < 10 * (r + 1)}

\* The stored rows published in [mn, mx].
RowsPublished(table, mn, mx) ==
    {b \in table : \E y \in mn..mx : b.publication_year = y}

\* ---- C1
\* C1: a get_by_rating request for a rating r in 1..5 whose statement ran on
\* a table with at least one row of floored average r is answered 200 with a
\* books list, and every book of the list is the public view of a row that
\* was stored when the statement ran and whose average lies in [r, r + 1).
C1_OnlyMatchingRating ==
    \A i \in Slots :
      (IsGet(i) /\ state[i] = "Responded"
         /\ RowsRated(history[i].before, AskedRating(i).num) # {}) =>
        /\ AskedRating(i).num \in 1..5
        /\ Answered(i, 200)
        /\ response[i].body.keys = {"books"}
        /\ response[i].body.books # {}
        /\ \A b \in response[i].body.books :
              /\ b.ratings.average >= 10 * AskedRating(i).num
              /\ b.ratings.average < 10 * (AskedRating(i).num + 1)
              /\ \E row \in history[i].before :
                    /\ row.isbn13 = b.isbn13
                    /\ row.rating_avg = b.ratings.average
                    /\ row.publication_year = b.publication
                    /\ row.image_url = b.icons.large

\* A 200 answer with books, from a table that also held a row of another
\* floored average.
C1_Witness ==
    \E i \in Slots :
      /\ IsGet(i) /\ state[i] = "Responded" /\ Answered(i, 200)
      /\ response[i].body.books # {}
      /\ \E row \in history[i].before :
            row \notin RowsRated(history[i].before, AskedRating(i).num)

\* ---- C2
\* C2: a get_by_rating request whose rating is missing (absent or empty),
\* has no leading integer, or is an integer outside 1..5 is answered 400 by
\* its handler and no statement is issued for it.
C2_BadRatingRejected ==
    \A i \in Slots :
      (IsGet(i) /\ Handled(i)
         /\ \/ request[i].query.rating.type = "undefined"
            \/ request[i].query.rating.chars = <<>>
            \/ AskedRating(i).nan
            \/ AskedRating(i).num \notin 1..5) =>
        /\ state[i] = "Rejected"
        /\ Answered(i, 400)
        /\ response[i].sent = 1
        /\ pending[i].issued = 0
        /\ history[i].executed = 0

\* A request whose rating is the integer 6 has been answered 400.
C2_Witness ==
    \E i \in Slots :
      /\ IsGet(i) /\ Answered(i, 400)
      /\ request[i].query.rating = Str(<<"6">>)
      /\ ~AskedRating(i).nan /\ AskedRating(i).num > 5

\* ---- C3
\* C3: a get_by_rating request whose statement succeeded is answered 404
\* with exactly "No books found with that rating." when no stored row had
\* the floored average asked for, and only then; otherwise it is answered
\* 200 with a books list.
C3_NotFoundIffNoRows ==
    \A i \in Slots :
      (IsGet(i) /\ state[i] = "Responded") =>
        LET none == RowsRated(history[i].before, AskedRating(i).num) = {}
        IN  /\ none <=> Answered(i, 404)
            /\ none => /\ response[i].body.keys = {"message"}
                       /\ response[i].body.message = "No books found with that rating."
            /\ ~none => /\ Answered(i, 200)
                        /\ response[i].body.keys = {"books"}
                        /\ response[i].body.books # {}

\* A 404 answer from a table that was not empty.
C3_Witness ==
    \E i \in Slots :
      /\ IsGet(i) /\ state[i] = "Responded" /\ Answered(i, 404)
      /\ history[i].before # {}

C6_ValidationBeforeQuery ==
    \A i \in Slots :
      /\ Answered(i, 400) => (pending[i].issued = 0 /\ history[i].executed = 0)
      /\ pending[i].issued > 0 =>
           \/ /\ IsGet(i)
              /\ ~AskedRating(i).nan
              /\ AskedRating(i).num \in 1..5
           \/ /\ IsDelete(i)
              /\ ~AskedMin(i).nan /\ ~AskedMax(i).nan
              /\ AskedMin(i).num <= AskedMax(i).num
      /\ history[i].executed > 0 => pending[i].issued > 0

\* A delete_by_range request answered 400 while the table holds rows its
\* raw bounds would match.
C6_Witness ==
    \E i \in Slots :
      /\ IsDelete(i) /\ Answered(i, 400)
      /\ ~AskedMin(i).nan /\ ~AskedMax(i).nan
      /\ RowsPublished(books, AskedMax(i).num, AskedMin(i).num) # {}

\* ---- C4
SameRange(i, j) ==
    /\ IsDelete(i) /\ IsDelete(j)
    /\ request[i].query.min = request[j].query.min
    /\ request[i].query.max = request[j].query.max

RECURSIVE ReportedSum(_)
ReportedSum(G) ==
    IF G = {} THEN 0
    ELSE LET i == CHOOSE x \in G : TRUE
         IN  (IF state[i] = "Responded" THEN response[i].body.deletedCount ELSE 0)
               + ReportedSum(G \ {i})

\* The request of G that arrived first (slots are taken in arrival order).
FirstOf(G) == CHOOSE i \in G : \A j \in G : i <= j

\* C7: among delete_by_range requests with the same bounds, the deletedCount
\* values reported so far add up to at most the number of rows that were in
\* the range when the first of them arrived.
C7_NoDoubleCount ==
    \A G \in SUBSET Slots :
      (Cardinality(G) >= 2 /\ \A i, j \in G : SameRange(i, j)) =>
        LET f == FirstOf(G)
        IN  ReportedSum(G) <=
              Cardinality(RowsPublished(history[f].atStart, AskedMin(f).num, AskedMax(f).num))

\* Two requests with the same bounds under way together: the later one has
\* been answered with the rows it removed while the earlier one, whose
\* statement ran second and found nothing, is still waiting to answer.
C7_Witness ==
    \E i, j \in Slots :
      /\ i < j /\ SameRange(i, j)
      /\ state[i] = "Queried" /\ state[j] = "Responded"
      /\ response[j].body.deletedCount > 0
      /\ result[i].rowCount = 0
      /\ history[j].atStart = history[i].atStart

\* ---- C8
Transitions ==
    {<<"Idle", "Received">>, <<"Received", "Rejected">>, <<"Received", "Validated">>,
     <<"Validated", "Queried">>, <<"Validated", "Failed">>, <<"Queried", "Responded">>,
     <<"Rejected", "Idle">>, <<"Responded", "Idle">>, <<"Failed", "Idle">>}

LifecycleStep ==
    \A i \in Slots :
      /\ state'[i] # state[i] => <<state[i], state'[i]>> \in Transitions
      /\ response'[i].sent # response[i].sent =>
           \/ Terminal(i)' /\ ~Terminal(i)
           \/ state'[i] = "Idle"
      /\ pending'[i].issued # pending[i].issued =>
           \/ state[i] = "Received" /\ state'[i] = "Validated"
           \/ state'[i] = "Idle"

LifecycleState ==
    \A i \in Slots :
      /\ pending[i].issued <= 1
      /\ history[i].executed <= pending[i].issued
      /\ ~Terminal(i) => response[i].sent = 0
      /\ Terminal(i) => response[i].sent = 1
      /\ state[i] = "Rejected" => (Answered(i, 400) /\ pending[i].issued = 0)
      /\ state[i] = "Responded" =>
           /\ Answered(i, 200) \/ Answered(i, 404)
           /\ pending[i].issued = 1
           /\ history[i].executed = 1
      /\ state[i] = "Failed" =>
           /\ Answered(i, 500)
           /\ response[i].body.keys = {"message"}
           /\ response[i].body.message = "Server error - contact support"
           /\ pending[i].issued = 1

\* C8: every request moves only along Received -> Rejected, Received ->
\* Validated -> Queried -> Responded, or Validated -> Failed; a response is
\* sent exactly when a terminal state is entered and only once, with 400 in
\* Rejected, 200 or 404 in Responded and the generic 500 in Failed; the
\* statement is issued once and never again; and, the pool settling every
\* statement, every received request reaches a terminal state.
C8_Lifecycle ==
    /\ [][LifecycleStep]_vars
    /\ []LifecycleState
    /\ \A i \in Slots : (state[i] = "Received") ~> Terminal(i)

\* A request whose only statement failed has been answered 500.
C8_Witness ==
    \E i \in Slots :
      /\ state[i] = "Failed" /\ Answered(i, 500)
      /\ pending[i].issued = 1 /\ response[i].sent = 1

\* ---- C9
\* C9: a get_by_rating request whose path parameter rating is an integer in
\* 1..5 is not answered 400, with or without a query-string rating.
C9_PathRatingAccepted ==
    \A i \in Slots :
      (IsGet(i) /\ Handled(i)
         /\ ~ParseInt(request[i].params.rating).nan
         /\ ParseInt(request[i].params.rating).num \in 1..5) =>
        ~Answered(i, 400)

\* ---- C10
\* C10: the two values bound into an issued DELETE statement denote, to the
\* database, the integers min and max that the validation checked.
C10_BoundValuesAreValidated ==
    \A i \in Slots :
      (IsDelete(i) /\ pending[i].issued > 0) =>
        /\ DbInteger(pending[i].values[1]).ok
        /\ DbInteger(pending[i].values[1]).num = AskedMin(i).num
        /\ DbInteger(pending[i].values[2]).ok
        /\ DbInteger(pending[i].values[2]).num = AskedMax(i).num

====
